---- MODULE Spec2Model ----
(***************************************************************************)
(* Model of processing/music.py: chord-symbol parsing, chord construction  *)
(* over the 12-tone chromatic scale, inversion by bass note, and the       *)
(* assembly of a progression with its bass line (export_to_midi).          *)
(*                                                                         *)
(* Python strings are sequences of one-character strings, so that the      *)
(* substring tests, suffix tests, splits and strips of the source are      *)
(* computed and not assumed: "F#m" is <<"F","#","m">>.  None is the empty  *)
(* sequence: every test the source makes on a value that may be None       *)
(* (bass, seventh, the returned chord) is a truthiness test, which None,   *)
(* "" and [] all fail.                                                     *)
(***************************************************************************)
EXTENDS Integers, Sequences, FiniteSets, TLC

VARIABLES
    pc,               \* position in the running call
    progression,      \* export_to_midi argument: [kind |-> "str"|"list", val |-> ...]
    bass_progression, \* export_to_midi argument, same shape; kind "none" when omitted
    tokens,           \* create_chord_progression: the list iterated over
    idx,              \* create_chord_progression: position of the for loop (1-based)
    chord_stream,     \* create_chord_progression: the stream being filled
    bass_stream,      \* create_bass_line: the stream returned
    ret,              \* export_to_midi: the returned message kind
    chord_string,     \* get_chord_from_string argument
    desc,             \* parse_chord_string result
    notes,            \* get_chord_from_string: local "notes"
    bass_note,        \* inversion_by_bass_note: local "bass_note"
    result,           \* inversion_by_bass_note: local "result"
    moves,            \* number of front-to-back moves made by the rotation loop
    warned,           \* inversion_by_bass_note printed its "not found" warning
    chord_notes       \* get_chord_from_string return value

vars ==
    << pc, progression, bass_progression, tokens, idx, chord_stream, bass_stream,
       ret, chord_string, desc, notes, bass_note, result, moves, warned,
       chord_notes >>

----------------------------------------------------------------------------
(* Bounds *)

\* longest chord-token list and bass-token list drawn for export_to_midi
MaxTokens == 3

\* cap on the rotation counter, above every chord length
MaxMoves == 6

----------------------------------------------------------------------------
(* Python string and list primitives *)

None == << >>

Range(s) == { s[i] : i \in 1..Len(s) }

\* sub in s
Contains(s, sub) ==
    \E i \in 1..(Len(s) - Len(sub) + 1) : SubSeq(s, i, i + Len(sub) - 1) = sub

\* s.endswith(suf)
EndsWith(s, suf) ==
    /\ Len(suf) <= Len(s)
    /\ SubSeq(s, Len(s) - Len(suf) + 1, Len(s)) = suf

\* s[:-n]
DropLast(s, n) == SubSeq(s, 1, Len(s) - n)

\* s.strip()
RECURSIVE Strip(_)
Strip(s) ==
    IF s = << >> THEN s
    ELSE IF s[1] = " " THEN Strip(Tail(s))
    ELSE IF s[Len(s)] = " " THEN Strip(DropLast(s, 1))
    ELSE s

\* s.split(sep), sep one character
RECURSIVE Split(_, _)
Split(s, sep) ==
    IF ~Contains(s, <<sep>>) THEN <<s>>
    ELSE LET i == CHOOSE k \in 1..Len(s) :
                      /\ s[k] = sep
                      /\ \A j \in 1..(k - 1) : s[j] # sep
         IN  <<SubSeq(s, 1, i - 1)>> \o Split(SubSeq(s, i + 1, Len(s)), sep)

\* s.replace(sub, '')
RECURSIVE Replace(_, _)
Replace(s, sub) ==
    IF s = << >> THEN s
    ELSE IF Len(sub) <= Len(s) /\ SubSeq(s, 1, Len(sub)) = sub
         THEN Replace(SubSeq(s, Len(sub) + 1, Len(s)), sub)
    ELSE <<s[1]>> \o Replace(Tail(s), sub)

\* [f(x) for x in s]
MapStrip(s) == [i \in 1..Len(s) |-> Strip(s[i])]

\* a dict given by its (key, value) pairs
Dict(pairs) ==
    [k \in { p[1] : p \in pairs } |-> (CHOOSE p \in pairs : p[1] = k)[2]]

----------------------------------------------------------------------------
(* Notes and chords: the static tables *)

notes_table ==
    << <<"C">>, <<"C","#","/","D","b">>, <<"D">>, <<"D","#","/","E","b">>,
       <<"E">>, <<"F">>, <<"F","#","/","G","b">>, <<"G">>,
       <<"G","#","/","A","b">>, <<"A">>, <<"A","#","/","B","b">>, <<"B">> >>

accidental_map ==
    Dict({ << <<"C","#">>, <<"D","b">> >>, << <<"D","b">>, <<"C","#">> >>,
           << <<"D","#">>, <<"E","b">> >>, << <<"E","b">>, <<"D","#">> >>,
           << <<"F","#">>, <<"G","b">> >>, << <<"G","b">>, <<"F","#">> >>,
           << <<"G","#">>, <<"A","b">> >>, << <<"A","b">>, <<"G","#">> >>,
           << <<"A","#">>, <<"B","b">> >>, << <<"B","b">>, <<"A","#">> >> })

chord ==
    Dict({ << <<"A">>,     << <<"A">>,     <<"C","#">>, <<"E">> >> >>,
           << <<"A","#">>, << <<"A","#">>, <<"D">>,     <<"F">> >> >>,
           << <<"B","b">>, << <<"B","b">>, <<"D">>,     <<"F">> >> >>,
           << <<"B">>,     << <<"B">>,     <<"D","#">>, <<"F","#">> >> >>,
           << <<"C">>,     << <<"C">>,     <<"E">>,     <<"G">> >> >>,
           << <<"C","#">>, << <<"C","#">>, <<"F">>,     <<"G","#">> >> >>,
           << <<"D","b">>, << <<"D","b">>, <<"F">>,     <<"A","b">> >> >>,
           << <<"D">>,     << <<"D">>,     <<"F","#">>, <<"A">> >> >>,
           << <<"D","#">>, << <<"D","#">>, <<"G">>,     <<"A","#">> >> >>,
           << <<"E","b">>, << <<"E","b">>, <<"G">>,     <<"B","b">> >> >>,
           << <<"E">>,     << <<"E">>,     <<"G","#">>, <<"B">> >> >>,
           << <<"F">>,     << <<"F">>,     <<"A">>,     <<"C">> >> >>,
           << <<"F","#">>, << <<"F","#">>, <<"A","#">>, <<"C","#">> >> >>,
           << <<"G","b">>, << <<"G","b">>, <<"B","b">>, <<"D","b">> >> >>,
           << <<"G">>,     << <<"G">>,     <<"B">>,     <<"D">> >> >>,
           << <<"G","#">>, << <<"G","#">>, <<"C">>,     <<"D","#">> >> >>,
           << <<"A","b">>, << <<"A","b">>, <<"C">>,     <<"E","b">> >> >> })

\* an enharmonic table with one more pair, B <-> Cb
enharmonic_with_Cb ==
    Dict({ << <<"B","b">>, <<"A","#">> >>, << <<"A","#">>, <<"B","b">> >>,
           << <<"D","b">>, <<"C","#">> >>, << <<"C","#">>, <<"D","b">> >>,
           << <<"E","b">>, <<"D","#">> >>, << <<"D","#">>, <<"E","b">> >>,
           << <<"E","#">>, <<"F">> >>,     << <<"F">>,     <<"E","#">> >>,
           << <<"G","b">>, <<"F","#">> >>, << <<"F","#">>, <<"G","b">> >>,
           << <<"A","b">>, <<"G","#">> >>, << <<"G","#">>, <<"A","b">> >>,
           << <<"C","b">>, <<"B">> >>,     << <<"B">>,     <<"C","b">> >> })

enharmonic ==
    Dict({ << <<"B","b">>, <<"A","#">> >>, << <<"A","#">>, <<"B","b">> >>,
           << <<"D","b">>, <<"C","#">> >>, << <<"C","#">>, <<"D","b">> >>,
           << <<"E","b">>, <<"D","#">> >>, << <<"D","#">>, <<"E","b">> >>,
           << <<"E","#">>, <<"F">> >>,     << <<"F">>,     <<"E","#">> >>,
           << <<"G","b">>, <<"F","#">> >>, << <<"F","#">>, <<"G","b">> >>,
           << <<"A","b">>, <<"G","#">> >>, << <<"G","#">>, <<"A","b">> >> })

----------------------------------------------------------------------------
(* Chord functions *)

\* the positions (0-based) whose spellings include note; empty when
\* get_note_index raises ValueError
NoteIndices(note) ==
    { i \in 0..(Len(notes_table) - 1) : note \in Range(Split(notes_table[i + 1], "/")) }

NoteFound(note) == NoteIndices(note) # {}

get_note_index(note) ==
    CHOOSE i \in NoteIndices(note) : \A j \in NoteIndices(note) : i <= j

\* a lowering that forgets the modulo: C falls off the table and is kept
lower_note_no_wrap(note) ==
    IF NoteFound(note) /\ get_note_index(note) >= 1
    THEN Split(notes_table[get_note_index(note)], "/")[1]
    ELSE note

lower_note_by_semitone(note) ==
    IF NoteFound(note)
    THEN LET new_idx == (get_note_index(note) - 1) % Len(notes_table)
         IN  Split(notes_table[new_idx + 1], "/")[1]
    ELSE note

\* a raising that forgets the modulo: B falls off the table and is kept
raise_note_no_wrap(note) ==
    IF NoteFound(note) /\ get_note_index(note) + 1 < Len(notes_table)
    THEN Split(notes_table[get_note_index(note) + 2], "/")[1]
    ELSE note

raise_note_by_semitone(note) ==
    IF NoteFound(note)
    THEN LET new_idx == (get_note_index(note) + 1) % Len(notes_table)
         IN  Split(notes_table[new_idx + 1], "/")[1]
    ELSE note

make_minor_chord(c) ==
    [c EXCEPT ![2] = lower_note_by_semitone(c[2])]

make_diminished_chord(c) ==
    [c EXCEPT ![2] = lower_note_by_semitone(c[2]),
              ![3] = lower_note_by_semitone(c[3])]

seventh_intervals ==
    Dict({ << <<"m","a","j","7">>, 11 >>,
           << <<"7">>,             10 >>,
           << <<"m","7">>,         10 >>,
           << <<"d","i","m","7">>, 9 >>,
           << <<"a","u","g","7">>, 10 >> })

\* for _ in range(n): current_note = raise_note_by_semitone(current_note)
RECURSIVE WalkUp(_, _)
WalkUp(note, n) ==
    IF n = 0 THEN note ELSE WalkUp(raise_note_by_semitone(note), n - 1)

make_seventh_chord(c, chord_type) ==
    IF chord_type \notin DOMAIN seventh_intervals
    THEN c
    ELSE LET walked == WalkUp(c[1], seventh_intervals[chord_type])
             current_note ==
                 IF /\ chord_type = <<"d","i","m","7">>
                    /\ ~Contains(walked, <<"b">>)
                    /\ Contains(walked, <<"#">>)
                 THEN IF walked \in DOMAIN accidental_map
                      THEN accidental_map[walked] ELSE walked
                 ELSE walked
         IN  Append(c, current_note)

\* result.pop(0) with the append lost
rotate_dropping(r) == Tail(r)

\* result.append(result.pop(0))
Rotate(r) == Append(Tail(r), r[1])

----------------------------------------------------------------------------
(* Chord string parsing *)

\* lines 170-198 with the "not endswith('maj7')" guard of the minor test lost
classify_minor_before_maj7(cs) ==
    LET base == [root |-> cs, is_minor |-> FALSE, is_dim |-> FALSE, seventh |-> None]
        d == IF Contains(cs, <<"d","i","m","7">>)
             THEN [base EXCEPT !.root = Replace(cs, <<"d","i","m","7">>),
                               !.seventh = <<"d","i","m","7">>, !.is_dim = TRUE]
             ELSE IF Contains(cs, <<"d","i","m">>)
             THEN [base EXCEPT !.root = Replace(cs, <<"d","i","m">>), !.is_dim = TRUE]
             ELSE IF Contains(cs, <<"m">>)
             THEN IF EndsWith(cs, <<"m","7">>)
                  THEN [base EXCEPT !.is_minor = TRUE, !.root = DropLast(cs, 2),
                                    !.seventh = <<"m","7">>]
                  ELSE IF EndsWith(cs, <<"m">>)
                  THEN [base EXCEPT !.is_minor = TRUE, !.root = DropLast(cs, 1)]
                  ELSE [base EXCEPT !.is_minor = TRUE]
             ELSE IF EndsWith(cs, <<"m","a","j","7">>)
             THEN [base EXCEPT !.root = DropLast(cs, 4), !.seventh = <<"m","a","j","7">>]
             ELSE IF EndsWith(cs, <<"7">>)
             THEN [base EXCEPT !.root = DropLast(cs, 1), !.seventh = <<"7">>]
             ELSE base
    IN  [d EXCEPT !.root = Strip(d.root)]

\* root, is_minor, is_dim, seventh of a chord string without its bass part
classify(cs) ==
    LET base == [root |-> cs, is_minor |-> FALSE, is_dim |-> FALSE, seventh |-> None]
        d == IF Contains(cs, <<"d","i","m","7">>)
             THEN [base EXCEPT !.root = Replace(cs, <<"d","i","m","7">>),
                               !.seventh = <<"d","i","m","7">>, !.is_dim = TRUE]
             ELSE IF Contains(cs, <<"d","i","m">>)
             THEN [base EXCEPT !.root = Replace(cs, <<"d","i","m">>), !.is_dim = TRUE]
             ELSE IF Contains(cs, <<"m">>) /\ ~EndsWith(cs, <<"m","a","j","7">>)
             THEN IF EndsWith(cs, <<"m","7">>)
                  THEN [base EXCEPT !.is_minor = TRUE, !.root = DropLast(cs, 2),
                                    !.seventh = <<"m","7">>]
                  ELSE IF EndsWith(cs, <<"m">>)
                  THEN [base EXCEPT !.is_minor = TRUE, !.root = DropLast(cs, 1)]
                  ELSE [base EXCEPT !.is_minor = TRUE]
             ELSE IF EndsWith(cs, <<"m","a","j","7">>)
             THEN [base EXCEPT !.root = DropLast(cs, 4), !.seventh = <<"m","a","j","7">>]
             ELSE IF EndsWith(cs, <<"7">>)
             THEN [base EXCEPT !.root = DropLast(cs, 1), !.seventh = <<"7">>]
             ELSE base
    IN  [d EXCEPT !.root = Strip(d.root)]

\* lines 200-203: a sharp bass with a flat enharmonic is respelled flat
prefer_flat_bass(bass) ==
    IF /\ bass # None
       /\ bass \in DOMAIN enharmonic
       /\ Contains(bass, <<"#">>)
       /\ Contains(enharmonic[bass], <<"b">>)
    THEN enharmonic[bass]
    ELSE bass

\* the tuple parse_chord_string returns, or the exception it raises:
\* "chord_part, bass = chord_string.split('/')" unpacks exactly two parts
parse_chord_string(s) ==
    LET parts == Split(s, "/")
        slash == Contains(s, <<"/">>)
    IN  IF slash /\ Len(parts) # 2
        THEN [exc |-> "ValueError", root |-> None, is_minor |-> FALSE,
              is_dim |-> FALSE, seventh |-> None, bass |-> None]
        ELSE LET cs   == IF slash THEN Strip(parts[1]) ELSE s
                 bass == IF slash THEN Strip(parts[2]) ELSE None
                 d    == classify(cs)
             IN  [exc |-> "", root |-> d.root, is_minor |-> d.is_minor,
                  is_dim |-> d.is_dim, seventh |-> d.seventh,
                  bass |-> prefer_flat_bass(bass)]

----------------------------------------------------------------------------
(* Inputs *)

\* example.py: progression
ExampleProgression ==
    <<"F","#","m","/","C","#",","," ","C","#","m",","," ","D",","," ","F",
      "d","i","m","7","/","D",","," ","A","/","C","#",","," ","B","b","d",
      "i","m","7">>

\* example.py: bass2
ExampleBass ==
    <<"C","#",","," ","C","#",","," ","D",","," ","D",","," ","C","#",",",
      " ","B","b">>

\* the 17 keys of the triad table
Roots == DOMAIN chord

\* note names given as roots and basses: the 17 table names, E# (a key of the
\* enharmonic table only) and H (no note at all)
NoteNames == Roots \cup { <<"E","#">>, <<"H">> }

\* the quality and seventh markers the parser knows
Suffixes ==
    { << >>, <<"m">>, <<"7">>, <<"m","7">>, <<"m","a","j","7">>,
      <<"d","i","m">>, <<"d","i","m","7">> }

\* what follows the chord part of a token: nothing, one bass, a spaced bass,
\* an empty bass, two slashes
BassParts ==
    { << >>, <<"/","F">>, <<"/","C","#">>, <<"/","F","#">>, <<"/","A">>,
      <<" ","/"," ","E","b">>, <<"/">>, <<"/","E","/","G">> }

ChordTokens == { r \o s \o b : r \in NoteNames, s \in Suffixes, b \in BassParts }

\* the tokens of the longer lists: a triad, an unknown root, a slash chord,
\* a token with two slashes
ListTokens ==
    { <<"C">>, <<"H">>, <<"A","m","/","E">>, <<"C","/","E","/","G">> }

BassTokens == { <<"C">>, <<"E">> }

ListsOver(S) == UNION { [1..n -> S] : n \in 1..MaxTokens }

NoInput == [kind |-> "none", val |-> << >>]

StrInput(s) == [kind |-> "str", val |-> s]

ListInput(l) == [kind |-> "list", val |-> l]

\* the seventh kinds of seventh_intervals
SeventhKinds == DOMAIN seventh_intervals

NoDesc ==
    [exc |-> "", root |-> None, is_minor |-> FALSE, is_dim |-> FALSE,
     seventh |-> None, bass |-> None]

\* every descriptor of a known or enharmonic root, the parser's or not
Descriptors ==
    { [exc |-> "", root |-> r, is_minor |-> q = "minor", is_dim |-> q = "dim",
       seventh |-> s, bass |-> b] :
      r \in Roots \cup { <<"E","#">> },
      q \in { "major", "minor", "dim" },
      s \in SeventhKinds \cup { None },
      b \in NoteNames \cup { None } }

----------------------------------------------------------------------------
(* Inversion, chord lookup, MIDI objects *)

\* lines 135-143 without the "elif bass_note not in chord_notes" return
inversion_entry_unchecked(c, b) ==
    IF b = None
    THEN [bass_note |-> b, loop |-> FALSE, warned |-> FALSE]
    ELSE IF b \in DOMAIN enharmonic /\ enharmonic[b] \in Range(c)
    THEN [bass_note |-> enharmonic[b], loop |-> TRUE, warned |-> FALSE]
    ELSE [bass_note |-> b, loop |-> TRUE, warned |-> FALSE]

\* lines 135-143 matching the bass by its own spelling only
inversion_entry_same_spelling(c, b) ==
    IF b = None
    THEN [bass_note |-> b, loop |-> FALSE, warned |-> FALSE]
    ELSE IF b \notin Range(c)
    THEN [bass_note |-> b, loop |-> FALSE, warned |-> TRUE]
    ELSE [bass_note |-> b, loop |-> TRUE, warned |-> FALSE]

\* inversion_by_bass_note before its loop: the note to wait for, whether the
\* loop is entered, whether the warning is printed
inversion_entry(c, b) ==
    IF b = None
    THEN [bass_note |-> b, loop |-> FALSE, warned |-> FALSE]
    ELSE IF b \in DOMAIN enharmonic /\ enharmonic[b] \in Range(c)
    THEN [bass_note |-> enharmonic[b], loop |-> TRUE, warned |-> FALSE]
    ELSE IF b \notin Range(c)
    THEN [bass_note |-> b, loop |-> FALSE, warned |-> TRUE]
    ELSE [bass_note |-> b, loop |-> TRUE, warned |-> FALSE]

\* get_chord_from_string: the root looked up, None when "Can't find chord"
resolve_root(root) ==
    IF root \in DOMAIN chord THEN root
    ELSE IF root \in DOMAIN enharmonic /\ enharmonic[root] \in DOMAIN chord
    THEN enharmonic[root]
    ELSE None

\* the pitch names of the music21 chord: sharps respelled flat
create_music21_chord(c) ==
    [i \in 1..Len(c) |->
        IF c[i] \in DOMAIN accidental_map /\ Contains(accidental_map[c[i]], <<"b">>)
        THEN accidental_map[c[i]] ELSE c[i]]

\* the pitch name of the music21 bass note
create_music21_note(note_name) ==
    IF Contains(note_name, <<"#">>) /\ note_name \in DOMAIN accidental_map
    THEN accidental_map[note_name] ELSE note_name

\* the list create_chord_progression and create_bass_line iterate over
token_list(input) ==
    IF input.kind = "str" THEN MapStrip(Split(input.val, ",")) ELSE input.val

create_bass_line(input) ==
    LET bass_notes == token_list(input)
    IN  [i \in 1..Len(bass_notes) |-> create_music21_note(bass_notes[i])]

\* "not bass_progression": omitted, an empty string or an empty list
no_bass(input) == input.kind = "none" \/ input.val = << >>

\* line 366: the lengths compared are those of the two streams
length_mismatch(cstream, bstream) ==
    Len(cstream) # Len(bstream)

----------------------------------------------------------------------------
(* State machine *)

Locals ==
    /\ desc = NoDesc
    /\ notes = << >>
    /\ bass_note = None
    /\ result = << >>
    /\ moves = 0
    /\ warned = FALSE
    /\ chord_notes = None

\* a call of export_to_midi: the example script's, one token of every shape,
\* or a short list with or without a bass list
Init ==
    /\ pc = "export"
    /\ \/ /\ progression = StrInput(ExampleProgression)
          /\ bass_progression \in { NoInput, StrInput(ExampleBass) }
       \/ /\ progression \in { ListInput(<<t>>) : t \in ChordTokens }
          /\ bass_progression = NoInput
       \/ /\ progression \in { ListInput(l) : l \in ListsOver(ListTokens) }
          /\ bass_progression \in
                 { NoInput } \cup { ListInput(l) : l \in ListsOver(BassTokens) }
    /\ tokens = << >>
    /\ idx = 0
    /\ chord_stream = << >>
    /\ bass_stream = << >>
    /\ ret = ""
    /\ chord_string = None
    /\ Locals

\* export_to_midi entering create_chord_progression, lines 286-289
Export ==
    /\ pc = "export"
    /\ tokens' = token_list(progression)
    /\ idx' = 1
    /\ chord_stream' = << >>
    /\ pc' = "loop"
    /\ UNCHANGED << progression, bass_progression, bass_stream, ret, chord_string,
                    desc, notes, bass_note, result, moves, warned, chord_notes >>

\* "for chord_name in progression": the next call of get_chord_from_string,
\* or the end of the loop
Loop ==
    /\ pc = "loop"
    /\ IF idx <= Len(tokens)
       THEN /\ chord_string' = tokens[idx]
            /\ pc' = "parse"
       ELSE /\ chord_string' = chord_string
            /\ pc' = "assemble"
    /\ desc' = NoDesc
    /\ notes' = << >>
    /\ bass_note' = None
    /\ result' = << >>
    /\ moves' = 0
    /\ warned' = FALSE
    /\ chord_notes' = None
    /\ UNCHANGED << progression, bass_progression, tokens, idx, chord_stream,
                    bass_stream, ret >>

\* line 212; an exception lands in the except clause, which returns None
Parse ==
    /\ pc = "parse"
    /\ desc' = parse_chord_string(chord_string)
    /\ pc' = IF desc'.exc # "" THEN "returned" ELSE "lookup"
    /\ chord_notes' = None
    /\ UNCHANGED << progression, bass_progression, tokens, idx, chord_stream,
                    bass_stream, ret, chord_string, notes, bass_note, result,
                    moves, warned >>

\* lines 215-226
Lookup ==
    /\ pc = "lookup"
    /\ LET root == resolve_root(desc.root)
       IN  IF root = None
           THEN /\ pc' = "returned"
                /\ chord_notes' = None
                /\ UNCHANGED << desc, notes >>
           ELSE /\ pc' = "quality"
                /\ desc' = [desc EXCEPT !.root = root]
                /\ notes' = chord[root]
                /\ UNCHANGED chord_notes
    /\ UNCHANGED << progression, bass_progression, tokens, idx, chord_stream,
                    bass_stream, ret, chord_string, bass_note, result, moves,
                    warned >>

\* lines 230-235
Quality ==
    /\ pc = "quality"
    /\ notes' = IF desc.is_dim THEN make_diminished_chord(notes)
                ELSE IF desc.is_minor THEN make_minor_chord(notes)
                ELSE notes
    /\ pc' = "seventh"
    /\ UNCHANGED << progression, bass_progression, tokens, idx, chord_stream,
                    bass_stream, ret, chord_string, desc, bass_note, result,
                    moves, warned, chord_notes >>

\* lines 238-240
Seventh ==
    /\ pc = "seventh"
    /\ notes' = IF desc.seventh # None THEN make_seventh_chord(notes, desc.seventh)
                ELSE notes
    /\ pc' = "bass"
    /\ UNCHANGED << progression, bass_progression, tokens, idx, chord_stream,
                    bass_stream, ret, chord_string, desc, bass_note, result,
                    moves, warned, chord_notes >>

\* lines 243-248: the call of inversion_by_bass_note, or the return of the
\* chord as built
Bass ==
    /\ pc = "bass"
    /\ IF desc.bass # None
       THEN /\ bass_note' = desc.bass
            /\ pc' = "invert"
            /\ UNCHANGED chord_notes
       ELSE /\ chord_notes' = notes
            /\ pc' = "returned"
            /\ UNCHANGED bass_note
    /\ UNCHANGED << progression, bass_progression, tokens, idx, chord_stream,
                    bass_stream, ret, chord_string, desc, notes, result, moves,
                    warned >>

\* lines 135-146
Invert ==
    /\ pc = "invert"
    /\ LET e == inversion_entry(notes, bass_note)
       IN  /\ bass_note' = e.bass_note
           /\ warned' = e.warned
           /\ pc' = IF e.loop THEN "rotate" ELSE "inverted"
    /\ result' = notes
    /\ moves' = 0
    /\ UNCHANGED << progression, bass_progression, tokens, idx, chord_stream,
                    bass_stream, ret, chord_string, desc, notes, chord_notes >>

\* lines 147-148: one test of the while condition, and one move when it holds
RotateStep ==
    /\ pc = "rotate"
    /\ IF result[1] # bass_note
       THEN /\ moves < MaxMoves
            /\ result' = Rotate(result)
            /\ moves' = moves + 1
            /\ pc' = "rotate"
       ELSE /\ pc' = "inverted"
            /\ UNCHANGED << result, moves >>
    /\ UNCHANGED << progression, bass_progression, tokens, idx, chord_stream,
                    bass_stream, ret, chord_string, desc, notes, bass_note,
                    warned, chord_notes >>

\* line 150 and lines 244-248: the inversion is the chord returned
Inverted ==
    /\ pc = "inverted"
    /\ notes' = result
    /\ chord_notes' = result
    /\ pc' = "returned"
    /\ UNCHANGED << progression, bass_progression, tokens, idx, chord_stream,
                    bass_stream, ret, chord_string, desc, bass_note, result,
                    moves, warned >>

\* lines 292-296
Collect ==
    /\ pc = "returned"
    /\ chord_stream' = IF chord_notes # None
                       THEN Append(chord_stream, create_music21_chord(chord_notes))
                       ELSE chord_stream
    /\ idx' = idx + 1
    /\ pc' = "loop"
    /\ UNCHANGED << progression, bass_progression, tokens, bass_stream, ret,
                    chord_string, desc, notes, bass_note, result, moves, warned,
                    chord_notes >>

\* lines 350-396: the chords alone, the warning, or the score of two parts;
\* the file may be locked (PermissionError) or not
Assemble ==
    /\ pc = "assemble"
    /\ \E locked \in BOOLEAN :
        IF no_bass(bass_progression)
        THEN /\ ret' = IF locked THEN "FileInUse" ELSE "SavedChords"
             /\ UNCHANGED bass_stream
        ELSE /\ bass_stream' = create_bass_line(bass_progression)
             /\ ret' = IF length_mismatch(chord_stream, bass_stream')
                       THEN "Warning"
                       ELSE IF locked THEN "FileInUse" ELSE "SavedWithBass"
    /\ pc' = "done"
    /\ UNCHANGED << progression, bass_progression, tokens, idx, chord_stream,
                    chord_string, desc, notes, bass_note, result, moves, warned,
                    chord_notes >>

Next ==
    \/ Export
    \/ Loop
    \/ Parse
    \/ Lookup
    \/ Quality
    \/ Seventh
    \/ Bass
    \/ Invert
    \/ RotateStep
    \/ Inverted
    \/ Collect
    \/ Assemble

Spec == Init /\ [][Next]_vars

\* the chord functions called directly, on every descriptor
InitTheory ==
    /\ pc = "lookup"
    /\ desc \in Descriptors
    /\ progression = NoInput
    /\ bass_progression = NoInput
    /\ tokens = << >>
    /\ idx = 0
    /\ chord_stream = << >>
    /\ bass_stream = << >>
    /\ ret = ""
    /\ chord_string = None
    /\ notes = << >>
    /\ bass_note = None
    /\ result = << >>
    /\ moves = 0
    /\ warned = FALSE
    /\ chord_notes = None

NextTheory ==
    \/ Lookup
    \/ Quality
    \/ Seventh
    \/ Bass
    \/ Invert
    \/ RotateStep
    \/ Inverted

SpecTheory == InitTheory /\ [][NextTheory]_vars

----------------------------------------------------------------------------
(* Properties *)

Naturals7 == { <<"C">>, <<"D">>, <<"E">>, <<"F">>, <<"G">>, <<"A">>, <<"B">> }

\* the text of a token before its first "/" and after it
BeforeFirstSlash(t) ==
    SubSeq(t, 1, (CHOOSE k \in 1..Len(t) :
                      t[k] = "/" /\ \A j \in 1..(k - 1) : t[j] # "/") - 1)

AfterFirstSlash(t) ==
    SubSeq(t, (CHOOSE k \in 1..Len(t) :
                   t[k] = "/" /\ \A j \in 1..(k - 1) : t[j] # "/") + 1, Len(t))

\* c turned left by k places
TurnedBy(c, k) == [i \in 1..Len(c) |-> c[((i - 1 + k) % Len(c)) + 1]]

\* the chromatic indices of the notes of a chord
PitchClasses(c) == { get_note_index(c[i]) : i \in 1..Len(c) }

\* C1: whenever a chord list and a bass list are both given and the number of
\* chord tokens differs from the number of bass tokens, export_to_midi returns
\* the length-mismatch warning (and so builds no paired progression), whether
\* or not every chord token builds.
C1_MismatchOfTokenCountsWarns ==
    ( /\ pc = "done"
      /\ ~no_bass(bass_progression)
      /\ Len(token_list(progression)) # Len(token_list(bass_progression)) )
    => ret = "Warning"

\* C2: parse_chord_string is total: it never raises, and for a token holding
\* "/" the descriptor is that of the text before the first "/" with the bass
\* taken from the text after it.
C2_ParseIsTotal ==
    /\ desc.exc = ""
    /\ ( pc = "lookup" /\ Contains(chord_string, <<"/">>) )
       => /\ desc.root = classify(Strip(BeforeFirstSlash(chord_string))).root
          /\ desc.bass = prefer_flat_bass(Strip(AfterFirstSlash(chord_string)))

\* C3: the example progression with the example bass line yields 6 chords and
\* 6 bass notes in input order (chord i holds the root of token i, bass i is
\* bass token i), no length-mismatch warning, and the slash chords F#m/C#,
\* Fdim7/D and A/C# start on the pitch class of their bass.
C3_ExampleAssembles ==
    ( /\ pc = "done"
      /\ progression = StrInput(ExampleProgression)
      /\ bass_progression = StrInput(ExampleBass) )
    => /\ ret \in { "SavedWithBass", "FileInUse" }
       /\ Len(chord_stream) = 6
       /\ Len(bass_stream) = 6
       /\ LET roots  == << 6, 1, 2, 5, 9, 10 >>
              basses == << 1, 1, 2, 2, 1, 10 >>
          IN  \A i \in 1..6 :
                  /\ roots[i] \in PitchClasses(chord_stream[i])
                  /\ get_note_index(bass_stream[i]) = basses[i]
       /\ get_note_index(chord_stream[1][1]) = 1
       /\ get_note_index(chord_stream[4][1]) = 2
       /\ get_note_index(chord_stream[5][1]) = 1
       /\ Len(chord_stream[1]) = 3
       /\ Len(chord_stream[4]) = 4

C3_ExampleSaved ==
    /\ pc = "done"
    /\ progression = StrInput(ExampleProgression)
    /\ bass_progression = StrInput(ExampleBass)
    /\ ret = "SavedWithBass"
    /\ chord_stream[1][1] = <<"D","b">>

\* C4: for a chord of 3 or 4 distinct notes and a bass name of the chromatic
\* table, inversion_by_bass_note returns the chord turned so that the note of
\* the bass's pitch class (the bass name or its enharmonic) is first, when the
\* chord holds such a note, and the chord unchanged with the warning when it
\* holds none.
C4_InversionIsRotation ==
    ( pc = "inverted" /\ desc.bass \in Roots )
    => LET at == { i \in 1..Len(notes) :
                       get_note_index(notes[i]) = get_note_index(desc.bass) }
       IN  /\ Len(notes) \in { 3, 4 }
           /\ Cardinality(Range(notes)) = Len(notes)
           /\ IF at # {}
              THEN /\ \E i \in at : result = TurnedBy(notes, i - 1)
                   /\ ~warned
              ELSE /\ result = notes
                   /\ warned

C4_TurnedToEnharmonic ==
    /\ pc = "inverted"
    /\ desc.bass = <<"C","#">>
    /\ notes = << <<"G","b">>, <<"B","b">>, <<"D","b">> >>
    /\ result = << <<"D","b">>, <<"G","b">>, <<"B","b">> >>

\* a token is buildable when the root of its chord part (the text before the
\* first "/") is in the triad table, as spelled or as its enharmonic
Buildable(t) ==
    LET part == IF Contains(t, <<"/">>) THEN Strip(BeforeFirstSlash(t)) ELSE t
    IN  resolve_root(classify(part).root) # None

RECURSIVE BuildableOf(_)
BuildableOf(ts) ==
    IF ts = << >> THEN << >>
    ELSE IF Buildable(ts[1]) THEN <<ts[1]>> \o BuildableOf(Tail(ts))
    ELSE BuildableOf(Tail(ts))

\* C5: a token whose root cannot be resolved yields no chord and does not stop
\* the run: the loop reaches its end, every buildable token yields exactly one
\* chord, and the chords stand in the order of their tokens (chord k holds the
\* root of the k-th buildable token).
C5_FailuresAreIsolated ==
    pc = "done"
    => LET built == BuildableOf(tokens)
       IN  /\ idx = Len(tokens) + 1
           /\ Len(chord_stream) = Len(built)
           /\ \A k \in 1..Len(built) :
                  LET part == IF Contains(built[k], <<"/">>)
                              THEN Strip(BeforeFirstSlash(built[k])) ELSE built[k]
                  IN  get_note_index(resolve_root(classify(part).root))
                          \in PitchClasses(chord_stream[k])

\* the same, over the lists whose tokens hold at most one "/"
FailuresAreIsolatedUpToOneSlash ==
    ( \A i \in 1..Len(tokens) : Len(Split(tokens[i], "/")) <= 2 )
    => C5_FailuresAreIsolated

\* C6: for every root of the triad table and each of the five seventh kinds,
\* make_seventh_chord appends exactly one note, of chromatic index
\* (root index + interval) mod 12 with maj7 = 11, 7 = 10, m7 = 10, dim7 = 9,
\* aug7 = 10, and leaves the three notes of the triad as they were.
C6_SeventhInterval ==
    [][ ( pc = "seventh" /\ desc.seventh \in SeventhKinds )
        => LET interval ==
                   CASE desc.seventh = <<"m","a","j","7">> -> 11
                     [] desc.seventh = <<"7">>             -> 10
                     [] desc.seventh = <<"m","7">>         -> 10
                     [] desc.seventh = <<"d","i","m","7">> -> 9
                     [] desc.seventh = <<"a","u","g","7">> -> 10
           IN  /\ Len(notes) = 3
               /\ notes[1] \in Roots
               /\ Len(notes') = 4
               /\ SubSeq(notes', 1, 3) = notes
               /\ get_note_index(notes'[4])
                      = (get_note_index(notes[1]) + interval) % 12 ]_vars

C6_SeventhWraps ==
    /\ pc = "bass"
    /\ desc.root = <<"A">>
    /\ desc.seventh = <<"m","a","j","7">>
    /\ ~desc.is_minor /\ ~desc.is_dim
    /\ notes = << <<"A">>, <<"C","#">>, <<"E">>, <<"G","#">> >>

\* C7: on every major triad of the table, the minor quality changes exactly
\* the second note, to chromatic index (old - 1) mod 12, and the diminished
\* quality changes exactly the second and third notes, each to
\* (old - 1) mod 12; the first note is kept in both.
C7_QualityLowers ==
    [][ ( pc = "quality" /\ (desc.is_minor \/ desc.is_dim) )
        => /\ notes = chord[notes[1]]
           /\ Len(notes') = 3
           /\ notes'[1] = notes[1]
           /\ get_note_index(notes'[2]) = (get_note_index(notes[2]) - 1) % 12
           /\ notes'[2] # notes[2]
           /\ IF desc.is_dim
              THEN /\ get_note_index(notes'[3]) = (get_note_index(notes[3]) - 1) % 12
                   /\ notes'[3] # notes[3]
              ELSE notes'[3] = notes[3] ]_vars

C7_MinorWraps ==
    /\ pc = "seventh"
    /\ desc.is_minor
    /\ notes = << <<"A","b">>, <<"B">>, <<"E","b">> >>

\* C8: for every root R of the triad table and every suffix S of "", m, 7,
\* m7, maj7, dim, dim7, parse(R + S) has root R and the quality and seventh
\* of S: major/none, minor/none, major/7, minor/m7, major/maj7,
\* diminished/none, diminished/dim7; and parse("Dm7/F") is D, minor, m7,
\* bass F.
C8_SuffixPrecedence ==
    pc = "lookup"
    => /\ \A R \in Roots, S \in Suffixes :
              chord_string = R \o S
              => /\ desc.root = R
                 /\ desc.bass = None
                 /\ desc.seventh =
                        (IF S \in { << >>, <<"m">>, <<"d","i","m">> } THEN None ELSE S)
                 /\ desc.is_dim = (S \in { <<"d","i","m">>, <<"d","i","m","7">> })
                 /\ desc.is_minor = (S \in { <<"m">>, <<"m","7">> })
       /\ chord_string = <<"D","m","7","/","F">>
          => desc = [exc |-> "", root |-> <<"D">>, is_minor |-> TRUE,
                     is_dim |-> FALSE, seventh |-> <<"m","7">>, bass |-> <<"F">>]

C8_ParsedDm7OverF ==
    /\ pc = "lookup"
    /\ chord_string = <<"D","m","7","/","F">>
    /\ desc.root = <<"D">>
    /\ desc.is_minor
    /\ desc.bass = <<"F">>

\* the names the running step looks up in the enharmonic table: the root of
\* the fallback, the bass of the inversion
LookedUp ==
    IF pc = "lookup" THEN { desc.root }
    ELSE IF pc = "invert" THEN { bass_note }
    ELSE { }

EnharmonicInvolutionAt(n) ==
    n \in DOMAIN enharmonic
    => /\ enharmonic[n] # n
       /\ enharmonic[n] \in DOMAIN enharmonic
       /\ enharmonic[enharmonic[n]] = n
       /\ ( NoteFound(n) /\ NoteFound(enharmonic[n]) )
          => get_note_index(n) = get_note_index(enharmonic[n])

\* C9 as stated: the enharmonic map is an involution over spellings of one
\* pitch class, and no natural note name (C, D, E, F, G, A, B) is a key of it.
C9_NoNaturalIsAKey ==
    \A n \in LookedUp :
        /\ EnharmonicInvolutionAt(n)
        /\ n \in Naturals7 => n \notin DOMAIN enharmonic

\* C9 amended: the enharmonic map is an involution over spellings of one
\* pitch class, and no natural note name other than F is a key of it; F is a
\* key, paired with E#.
C9_OnlyFIsANaturalKey ==
    \A n \in LookedUp :
        /\ EnharmonicInvolutionAt(n)
        /\ n \in Naturals7 \ { <<"F">> } => n \notin DOMAIN enharmonic
        /\ n = <<"F">> => ( n \in DOMAIN enharmonic /\ enharmonic[n] = <<"E","#">> )

C9_FLookedUp ==
    /\ pc = "invert"
    /\ bass_note = <<"F">>
    /\ bass_note \in DOMAIN enharmonic

\* C10: whenever the rotation loop of inversion_by_bass_note is running, the
\* note it waits for is in the chord, and it has made at most len(chord) - 1
\* moves: it leaves after at most that many.
C10_RotationTerminates ==
    pc = "rotate"
    => /\ result # << >>
       /\ bass_note \in Range(result)
       /\ moves <= Len(result) - 1
       /\ moves = Len(result) - 1 => result[1] = bass_note

C10_ThreeMoves ==
    /\ pc = "rotate"
    /\ Len(result) = 4
    /\ moves = 3
    /\ result[1] = bass_note

====
